---- MODULE Spec2Model ----
(***************************************************************************)
(* A model of lib/parse.js of kss-cssdoc-node: the comment block scanner   *)
(* findCommentBlocks, the section builder parse, and the modifier and      *)
(* parameter grammar createModifiers / createParameters.                   *)
(*                                                                         *)
(* A JavaScript string is modelled as a sequence of one-character strings, *)
(* so that every regular expression of the source is computed character by *)
(* character.                                                              *)
(***************************************************************************)
EXTENDS Integers, Sequences, FiniteSets, TLC

VARIABLES
    \* findCommentBlocks: its input, the lines, the loop index, its locals
    input, lines, i, blocks, block, indentAmount,
    insideSingleBlock, insideMultiBlock, insideDocblock, pc,
    \* parse: its input and options, what docblockParser.parse returns for
    \* each raw, its locals
    parseInput, options, docblock, files, styleGuide,
    fileIndex, comments, commentIndex, parsePc,
    \* createModifiers and createParameters: the entries and the results
    rawEntries, modifiersOut, parametersOut, grammarPc

scanVars == <<input, lines, i, blocks, block, indentAmount,
              insideSingleBlock, insideMultiBlock, insideDocblock, pc>>

parseVars == <<parseInput, docblock, files, styleGuide,
               fileIndex, comments, commentIndex, parsePc>>

grammarVars == <<rawEntries, modifiersOut, parametersOut, grammarPc>>

vars == <<scanVars, parseVars, grammarVars, options>>

-----------------------------------------------------------------------------
(* Bounds of the model.                                                    *)

\* The longest input of the scanner, in lines.
MaxLines == 4

\* The most files of an input of parse.
MaxFiles == 2

\* The most tags of a docblock.
MaxTags == 3

\* The longest value of a weight tag, in characters.
MaxWeightLen == 2

\* The longest modifier or parameter entry, in tokens.
MaxTokens == 5

-----------------------------------------------------------------------------
(* Strings.                                                                *)

LF == "\n"
CR == "\r"
TAB == "\t"
SP == " "

\* The characters the \s class of a JavaScript regular expression matches,
\* among those of the model's alphabet.
IsWhitespace(c) == c \in {SP, TAB, LF, CR}

RECURSIVE Concat(_)
\* The concatenation of a sequence of strings.
Concat(ss) ==
    IF ss = <<>> THEN <<>> ELSE Head(ss) \o Concat(Tail(ss))

RECURSIVE JoinWith(_, _)
\* Array.prototype.join: the strings of ss with sep between them.
JoinWith(ss, sep) ==
    IF ss = <<>> THEN <<>>
    ELSE IF Len(ss) = 1 THEN Head(ss)
    ELSE Head(ss) \o sep \o JoinWith(Tail(ss), sep)

RECURSIVE SkipWhitespace(_)
\* s without its leading whitespace run: what is left after ^\s* matched.
SkipWhitespace(s) ==
    IF s # <<>> /\ IsWhitespace(Head(s)) THEN SkipWhitespace(Tail(s)) ELSE s

\* The leading whitespace run of s: line.match(/^\s*/)[0].
LeadingWhitespace(s) == SubSeq(s, 1, Len(s) - Len(SkipWhitespace(s)))

\* A variant of StripTrailingSpace that leaves the trailing space in place.
StripTrailingSpaceKept(s) == s

RECURSIVE StripTrailingSpace(_)
\* line.replace(/\s*$/, '')
StripTrailingSpace(s) ==
    IF s # <<>> /\ IsWhitespace(s[Len(s)])
    THEN StripTrailingSpace(SubSeq(s, 1, Len(s) - 1))
    ELSE s

\* Whether s starts with the string p.
StartsWith(s, p) == Len(s) >= Len(p) /\ SubSeq(s, 1, Len(p)) = p

\* Whether every character of s is whitespace: what \s*$ demands of the rest.
OnlyWhitespace(s) == \A k \in 1..Len(s) : IsWhitespace(s[k])

RECURSIVE NormalizeLineEndings(_)
\* input.replace(/\r\n/g, '\n').replace(/\r/g, '\n')
NormalizeLineEndings(s) ==
    IF s = <<>> THEN <<>>
    ELSE IF Head(s) = CR /\ Len(s) >= 2 /\ s[2] = LF
    THEN <<LF>> \o NormalizeLineEndings(Tail(Tail(s)))
    ELSE IF Head(s) = CR THEN <<LF>> \o NormalizeLineEndings(Tail(s))
    ELSE <<Head(s)>> \o NormalizeLineEndings(Tail(s))

RECURSIVE SplitLines(_, _)
\* input.split('\n'): acc is the piece being read.
SplitLines(s, acc) ==
    IF s = <<>> THEN <<acc>>
    ELSE IF Head(s) = LF THEN <<acc>> \o SplitLines(Tail(s), <<>>)
    ELSE SplitLines(Tail(s), Append(acc, Head(s)))

RECURSIVE StripLeadingNewlines(_)
\* text.replace(/^\n+/, '')
StripLeadingNewlines(s) ==
    IF s # <<>> /\ Head(s) = LF THEN StripLeadingNewlines(Tail(s)) ELSE s

RECURSIVE StripTrailingNewlines(_)
\* text.replace(/\n+$/, '')
StripTrailingNewlines(s) ==
    IF s # <<>> /\ s[Len(s)] = LF
    THEN StripTrailingNewlines(SubSeq(s, 1, Len(s) - 1))
    ELSE s

-----------------------------------------------------------------------------
(* findCommentBlocks.                                                      *)

\* A variant of docblockStart without the anchors: /\/\*\*/
docblockStartUnanchored(line) ==
    \E p \in 1..(Len(line) - 2) : SubSeq(line, p, p + 2) = <<"/", "*", "*">>

\* commentRegex.docblockStart: /^\s*\/\*\*\s*$/
docblockStart(line) ==
    LET t == SkipWhitespace(line)
    IN  StartsWith(t, <<"/", "*", "*">>) /\ OnlyWhitespace(SubSeq(t, 4, Len(t)))

\* commentRegex.multiStart: /^\s*\/\*\*\s*$/ (the same expression)
multiStart(line) ==
    LET t == SkipWhitespace(line)
    IN  StartsWith(t, <<"/", "*", "*">>) /\ OnlyWhitespace(SubSeq(t, 4, Len(t)))

\* commentRegex.multiFinish: /^\s*\*\/\s*$/
multiFinish(line) ==
    LET t == SkipWhitespace(line)
    IN  StartsWith(t, <<"*", "/">>) /\ OnlyWhitespace(SubSeq(t, 3, Len(t)))

\* A variant of StripCommentMarker that leaves the whitespace after the
\* asterisk in place: /^\s*\*/
StripCommentMarkerOnly(line) ==
    LET t == SkipWhitespace(line)
    IN  IF t # <<>> /\ Head(t) = "*" THEN Tail(t) ELSE line

\* line.replace(/^\s*\*\s?/, ''): the line minus the comment marker.
StripCommentMarker(line) ==
    LET t == SkipWhitespace(line)
    IN  IF t # <<>> /\ Head(t) = "*"
        THEN IF Len(t) >= 2 /\ IsWhitespace(t[2])
             THEN SubSeq(t, 3, Len(t))
             ELSE Tail(t)
        ELSE line

\* line.replace(new RegExp('^' + indentAmount), '', 1): indentAmount is a run
\* of whitespace, which as an expression matches itself.
StripIndent(line, indent) ==
    IF StartsWith(line, indent) THEN SubSeq(line, Len(indent) + 1, Len(line))
    ELSE line

\* The working block the scanner starts from and resets to.
EmptyBlock == [line |-> 0, text |-> <<>>, raw |-> <<>>]

\* indentAmount is false or a string; isFalse tells which.
IndentFalse == [isFalse |-> TRUE, str |-> <<>>]

IndentOf(s) == [isFalse |-> FALSE, str |-> s]

\* The scanner's state before the first line.
ScanStart ==
    [blocks |-> <<>>, block |-> EmptyBlock, indentAmount |-> IndentFalse,
     insideSingleBlock |-> FALSE, insideMultiBlock |-> FALSE,
     insideDocblock |-> FALSE]

\* A variant of SaveBlock that resets the flags and the indentation and leaves
\* the working block as it is.
SaveBlockKept(st) ==
    [st EXCEPT
        !.blocks = Append(st.blocks,
            [st.block EXCEPT
                !.text = StripTrailingNewlines(StripLeadingNewlines(st.block.text))]),
        !.indentAmount = IndentFalse,
        !.insideSingleBlock = FALSE,
        !.insideMultiBlock = FALSE,
        !.insideDocblock = FALSE]

\* The end of the current block: trim its text, save it, reset the scanner.
SaveBlock(st) ==
    [st EXCEPT
        !.blocks = Append(st.blocks,
            [st.block EXCEPT
                !.text = StripTrailingNewlines(StripLeadingNewlines(st.block.text))]),
        !.block = EmptyBlock,
        !.indentAmount = IndentFalse,
        !.insideSingleBlock = FALSE,
        !.insideMultiBlock = FALSE,
        !.insideDocblock = FALSE]

\* The part of the loop body after the end-of-block test, on the line with
\* its trailing space removed; idx is the loop index i.
ScanBody(st, line, idx) ==
    IF docblockStart(line)
    THEN [st EXCEPT !.insideDocblock = TRUE,
                    !.block.raw = @ \o line \o <<LF>>,
                    !.block.line = idx + 1]
    ELSE IF st.insideDocblock
    THEN [st EXCEPT !.block.raw = @ \o line \o <<LF>>,
                    !.block.text = @ \o StripCommentMarker(line) \o <<LF>>]
    ELSE IF multiStart(line)
    THEN [st EXCEPT !.insideMultiBlock = TRUE,
                    !.block.raw = @ \o line \o <<LF>>,
                    !.block.line = idx + 1]
    ELSE IF st.insideMultiBlock
    THEN IF st.indentAmount.isFalse /\ line = <<>>
         THEN [st EXCEPT !.block.raw = @ \o line \o <<LF>>]
         ELSE LET indent == IF st.indentAmount.isFalse
                            THEN LeadingWhitespace(line)
                            ELSE st.indentAmount.str
              IN  [st EXCEPT !.block.raw = @ \o line \o <<LF>>,
                             !.indentAmount = IndentOf(indent),
                             !.block.text = @ \o StripIndent(line, indent) \o <<LF>>]
    ELSE st

\* One iteration of the loop over the lines.
ScanLine(st, rawLine, idx) ==
    LET line == StripTrailingSpace(rawLine)
        atEnd == st.insideSingleBlock
                 \/ ((st.insideMultiBlock \/ st.insideDocblock) /\ multiFinish(line))
        doneWithCurrentLine == ~st.insideSingleBlock
    IN  IF atEnd
        THEN IF doneWithCurrentLine THEN SaveBlock(st)
             ELSE ScanBody(SaveBlock(st), line, idx)
        ELSE ScanBody(st, line, idx)

\* The lines the loop runs over: line endings converted, an empty line added.
InputLines(text) == SplitLines(NormalizeLineEndings(text) \o <<LF>>, <<>>)

RECURSIVE ScanFrom(_, _, _)
\* The scanner's state after the lines from index idx on.
ScanFrom(st, ls, idx) ==
    IF idx >= Len(ls) THEN st
    ELSE ScanFrom(ScanLine(st, ls[idx + 1], idx), ls, idx + 1)

\* findCommentBlocks(input): the blocks returned.
findCommentBlocks(text) == ScanFrom(ScanStart, InputLines(text), 0).blocks

-----------------------------------------------------------------------------
(* Regular expressions of the modifier and parameter grammar.              *)

RECURSIVE WhitespaceRunEnd(_, _)
\* The index of the last character of the whitespace run of s that starts at
\* p, and p - 1 when s has no whitespace at p: what a greedy \s+ matches.
WhitespaceRunEnd(s, p) ==
    IF p <= Len(s) /\ IsWhitespace(s[p]) THEN WhitespaceRunEnd(s, p + 1) ELSE p - 1

\* A variant of SeparatorEndAt whose whitespace is optional: /\s*c\s*/
SeparatorEndAtLoose(s, p, c) ==
    LET q == WhitespaceRunEnd(s, p)
    IN  IF q + 1 <= Len(s) /\ s[q + 1] = c THEN WhitespaceRunEnd(s, q + 2) ELSE 0

\* Where a match of /\s+c\s+/ that starts at p ends, and 0 when there is none.
SeparatorEndAt(s, p, c) ==
    LET q == WhitespaceRunEnd(s, p)
    IN  IF q >= p /\ q + 2 <= Len(s) /\ s[q + 1] = c /\ IsWhitespace(s[q + 2])
        THEN WhitespaceRunEnd(s, q + 2)
        ELSE 0

RECURSIVE SeparatorStart(_, _, _)
\* Where the leftmost match of /\s+c\s+/ at or after p starts, 0 when none.
SeparatorStart(s, p, c) ==
    IF p > Len(s) THEN 0
    ELSE IF SeparatorEndAt(s, p, c) > 0 THEN p
    ELSE SeparatorStart(s, p + 1, c)

RECURSIVE SplitOnSeparator(_, _)
\* s.split(/\s+c\s+/): the pieces between the matches.
SplitOnSeparator(s, c) ==
    LET p == SeparatorStart(s, 1, c)
    IN  IF p = 0 THEN <<s>>
        ELSE <<SubSeq(s, 1, p - 1)>>
             \o SplitOnSeparator(SubSeq(s, SeparatorEndAt(s, p, c) + 1, Len(s)), c)

\* s.split(/\s+c\s+/, 1)[0]
FirstPiece(s, c) == Head(SplitOnSeparator(s, c))

RECURSIVE IndexOf(_, _, _)
\* The first index at or after p where the string pat occurs in s, 0 when none.
IndexOf(s, pat, p) ==
    IF p + Len(pat) - 1 > Len(s) THEN 0
    ELSE IF SubSeq(s, p, p + Len(pat) - 1) = pat THEN p
    ELSE IndexOf(s, pat, p + 1)

\* s.replace(pat, ''), pat a string: its first occurrence is removed.
RemoveFirst(s, pat) ==
    LET p == IndexOf(s, pat, 1)
    IN  IF p = 0 THEN s
        ELSE SubSeq(s, 1, p - 1) \o SubSeq(s, p + Len(pat), Len(s))

\* s.replace(/^\s+\-\s+/, '')
StripLeadingSeparator(s) ==
    LET e == SeparatorEndAt(s, 1, "-")
    IN  IF e > 0 THEN SubSeq(s, e + 1, Len(s)) ELSE s

\* s.replace(/\n/g, ' ')
NewlinesToSpaces(s) == [k \in 1..Len(s) |-> IF s[k] = LF THEN SP ELSE s[k]]

\* The class [\s|\t] of the source: whitespace, and the bar.
InFoldClass(c) == IsWhitespace(c) \/ c = "|"

RECURSIVE FoldRunEnd(_, _)
\* The index of the last character of the run of the class that starts at p.
FoldRunEnd(s, p) ==
    IF p <= Len(s) /\ InFoldClass(s[p]) THEN FoldRunEnd(s, p + 1) ELSE p - 1

RECURSIVE CollapseRuns(_, _)
\* s.replace(/([\s|\t]{2,})/g, ' ') from index p on.
CollapseRuns(s, p) ==
    IF p > Len(s) THEN <<>>
    ELSE LET e == FoldRunEnd(s, p)
         IN  IF e >= p + 1 THEN <<SP>> \o CollapseRuns(s, e + 1)
             ELSE <<s[p]>> \o CollapseRuns(s, p + 1)

\* marked(text, {renderer: inlineRenderer}): the rendering is the work of the
\* Markdown library; the model keeps the text and marks it as rendered inline.
markedInline(text) == <<"<inline>">> \o text \o <<"</inline>">>

\* marked(text): as above, marked as rendered in block mode.
marked(text) == <<"<block>">> \o text \o <<"</block>">>

-----------------------------------------------------------------------------
(* createModifiers and createParameters.                                   *)

\* The body of the map of createModifiers, on one entry.
ModifierOf(entry, opts) ==
    LET modifier == FirstPiece(entry, "-")
        description == StripLeadingSeparator(RemoveFirst(entry, modifier))
        folded == IF \E k \in 1..Len(description) : description[k] = LF
                  THEN CollapseRuns(NewlinesToSpaces(description), 1)
                  ELSE description
    IN  [name |-> modifier,
         description |-> IF opts.markdown THEN markedInline(folded) ELSE folded]

createModifiers(rawModifiers, opts) ==
    [k \in 1..Len(rawModifiers) |-> ModifierOf(rawModifiers[k], opts)]

\* The body of the map of createParameters, on one entry.
ParameterOf(entry, opts) ==
    LET parameter == FirstPiece(entry, "-")
        description == StripLeadingSeparator(RemoveFirst(entry, parameter))
        hasDefault == SeparatorStart(parameter, 1, "=") > 0
        tokens == SplitOnSeparator(parameter, "=")
    IN  [name |-> IF hasDefault THEN tokens[1] ELSE parameter,
         defaultValue |-> IF hasDefault THEN tokens[2] ELSE <<>>,
         description |-> IF opts.markdown THEN markedInline(description) ELSE description]

createParameters(rawParameters, opts) ==
    [k \in 1..Len(rawParameters) |-> ParameterOf(rawParameters[k], opts)]

-----------------------------------------------------------------------------
(* parse: values of JavaScript.                                            *)

\* A tag map is a function from tag names to strings; a tag that is absent is
\* undefined. Has tells a defined tag from an undefined one.
Has(tags, name) == name \in DOMAIN tags

\* tags[name] || '': a tag that is undefined or empty gives ''.
TagOrEmpty(tags, name) == IF Has(tags, name) THEN tags[name] ELSE <<>>

\* A string of JavaScript is truthy when it is not empty.
Truthy(str) == str # <<>>

Digits == {"0", "1", "2", "3", "4", "5", "6", "7", "8", "9"}

DigitValue(c) ==
    CASE c = "0" -> 0 [] c = "1" -> 1 [] c = "2" -> 2 [] c = "3" -> 3
      [] c = "4" -> 4 [] c = "5" -> 5 [] c = "6" -> 6 [] c = "7" -> 7
      [] c = "8" -> 8 [] c = "9" -> 9

RECURSIVE DigitRunEnd(_, _)
\* The index of the last character of the run of digits of s that starts at p.
DigitRunEnd(s, p) ==
    IF p <= Len(s) /\ s[p] \in Digits THEN DigitRunEnd(s, p + 1) ELSE p - 1

RECURSIVE DecimalValue(_)
\* The number a string of digits writes.
DecimalValue(s) ==
    IF s = <<>> THEN 0
    ELSE 10 * DecimalValue(SubSeq(s, 1, Len(s) - 1)) + DigitValue(s[Len(s)])

\* A number of JavaScript: NaN, or an integer.
NaN == [isNaN |-> TRUE, value |-> 0]

Number(n) == [isNaN |-> FALSE, value |-> n]

\* ToNumber of a string over whitespace, digits, the minus sign and letters:
\* whitespace is trimmed on both sides; the empty string is 0; an optional
\* sign before digits is their value; anything else is NaN.
StringToNumber(str) ==
    LET t == StripTrailingSpace(SkipWhitespace(str))
        signed == t # <<>> /\ Head(t) = "-"
        d == IF signed THEN Tail(t) ELSE t
    IN  IF t = <<>> THEN Number(0)
        ELSE IF d # <<>> /\ DigitRunEnd(d, 1) = Len(d)
        THEN Number(IF signed THEN 0 - DecimalValue(d) ELSE DecimalValue(d))
        ELSE NaN

\* isNaN(tags[name]): undefined converts to NaN, a string by StringToNumber.
isNaN(tags, name) ==
    IF Has(tags, name) THEN StringToNumber(tags[name]).isNaN ELSE TRUE

\* parseInt(str): leading whitespace is skipped; an optional sign and the
\* longest run of digits after it are read; with no digit the result is NaN.
parseInt(str) ==
    LET t == SkipWhitespace(str)
        signed == t # <<>> /\ Head(t) = "-"
        d == IF signed THEN Tail(t) ELSE t
        e == DigitRunEnd(d, 1)
    IN  IF e = 0 THEN NaN
        ELSE Number(IF signed THEN 0 - DecimalValue(SubSeq(d, 1, e))
                    ELSE DecimalValue(SubSeq(d, 1, e)))

RECURSIVE CommonPrefixLen(_, _)
CommonPrefixLen(a, b) ==
    IF a # <<>> /\ b # <<>> /\ Head(a) = Head(b)
    THEN 1 + CommonPrefixLen(Tail(a), Tail(b))
    ELSE 0

\* path.relative(base, path).replace(/\\/g, '/'), a path being the sequence of
\* its segments: the way up from base to the common directory, then down.
RelativePath(base, path) ==
    LET c == CommonPrefixLen(base, path)
    IN  [k \in 1..(Len(base) - c) |-> ".."] \o SubSeq(path, c + 1, Len(path))

\* Object.assign(target, source): the keys of source override.
ObjectAssign(target, source) ==
    [k \in DOMAIN target \cup DOMAIN source |->
        IF k \in DOMAIN source THEN source[k] ELSE target[k]]

-----------------------------------------------------------------------------
(* parse.                                                                  *)

\* Lines 57-72: the input as a list of file objects. A string, and a string
\* of an array, gives an object that has contents only.
FileOfString(contents) ==
    [isString |-> TRUE, path |-> <<>>, base |-> <<>>, contents |-> contents]

MassagedFiles(inp) ==
    IF inp.isString THEN <<FileOfString(inp.contents)>>
    ELSE [k \in 1..Len(inp.elements) |->
            IF inp.elements[k].isString
            THEN FileOfString(inp.elements[k].contents)
            ELSE inp.elements[k]]

\* A variant of PushedPaths that pushes a path for every element of the array,
\* the strings included, whose path is empty.
PushedPathsOfAll(inp) ==
    IF inp.isString THEN <<>>
    ELSE [k \in 1..Len(inp.elements) |-> inp.elements[k].path]

\* Line 68: the paths pushed to styleGuide.files while the array is mapped.
PushedPaths(inp) ==
    IF inp.isString THEN <<>>
    ELSE LET objects == SelectSeq(inp.elements, LAMBDA e : ~e.isString)
         IN  [k \in 1..Len(objects) |-> objects[k].path]

\* Lines 105-108: whether the docblock is kept: its styleguide tag is truthy.
HasReference(commentObject) ==
    Truthy(TagOrEmpty(commentObject.tags, "styleguide"))

\* Line 147: the weight of the section.
WeightOf(tags) ==
    IF isNaN(tags, "weight") THEN Number(0) ELSE parseInt(tags["weight"])

\* A variant of DeprecatedOf that reads the value of the tag, not its presence.
DeprecatedOfValue(tags) == Truthy(TagOrEmpty(tags, "deprecated"))

\* Line 150: whether the section is deprecated.
DeprecatedOf(tags) == Has(tags, "deprecated")

\* Line 151: whether the section is experimental.
ExperimentalOf(tags) == Has(tags, "experimental")

\* Lines 154-160: the custom properties of the section.
CustomOf(tags, opts) ==
    [name \in {opts.custom[k] : k \in 1..Len(opts.custom)} |-> TagOrEmpty(tags, name)]

\* A variant of PushSection that adds the section in front: unshift.
PushSectionFront(sections, newSection) == <<newSection>> \o sections

\* Line 167: styleGuide.sections.push(newSection).
PushSection(sections, newSection) == Append(sections, newSection)

\* Lines 84-164: the section of a comment whose docblock has a reference. A
\* modifier or param tag that occurs once is a string, which concat makes a
\* list of one entry.
SectionOf(file, comment, commentObject, opts) ==
    LET tags == commentObject.tags
        description == TagOrEmpty(tags, "description")
        modifiers == TagOrEmpty(tags, "modifier")
        parameters == TagOrEmpty(tags, "param")
        newSection ==
            [raw |-> comment.raw,
             header |-> IF opts.header THEN NewlinesToSpaces(commentObject.text)
                        ELSE <<>>,
             description |-> IF opts.markdown THEN marked(description)
                             ELSE description,
             modifiers |-> IF modifiers # <<>> THEN createModifiers(<<modifiers>>, opts)
                           ELSE <<>>,
             parameters |-> IF parameters # <<>> THEN createParameters(<<parameters>>, opts)
                            ELSE <<>>,
             markup |-> TagOrEmpty(tags, "markup"),
             sourceFile |->
                [name |-> IF Truthy(file.base) THEN RelativePath(file.base, file.path)
                          ELSE file.path,
                 base |-> file.base,
                 path |-> file.path,
                 line |-> comment.line],
             reference |-> tags["styleguide"],
             weight |-> WeightOf(tags),
             deprecated |-> DeprecatedOf(tags),
             experimental |-> ExperimentalOf(tags)]
    IN  ObjectAssign(newSection, CustomOf(tags, opts))

-----------------------------------------------------------------------------
(* The inputs of the scanner.                                              *)

OpenLine == <<"/", "*", "*">>
OpenLineSpaced == <<SP, "/", "*", "*", TAB>>
CloseLine == <<SP, "*", "/">>
DocLine == <<SP, "*", SP, "a">>
TextLine == <<SP, SP, "b">>
BlankLine == <<>>
SingleLineComment == <<"/", "*", "*", SP, "a", SP, "*", "/">>
OpenInString == <<"a", SP, "/", "*", "*">>
CloseWithText == <<"*", "/", SP, "a">>

LineKinds ==
    {OpenLine, OpenLineSpaced, CloseLine, DocLine, TextLine, BlankLine,
     SingleLineComment, OpenInString, CloseWithText}

LineEndings == {<<LF>>, <<CR, LF>>, <<CR>>}

\* The sequences over S of length at most n.
SeqUpTo(S, n) == UNION {[1..k -> S] : k \in 0..n}

ScanInputs ==
    {JoinWith(ls, eol) : ls \in SeqUpTo(LineKinds, MaxLines), eol \in LineEndings}

-----------------------------------------------------------------------------
(* The inputs of parse.                                                    *)

PlainText == <<"a">>
OneBlockText == JoinWith(<<OpenLine, DocLine, CloseLine>>, <<LF>>)
TwoBlockText == JoinWith(<<OpenLine, CloseLine, TextLine, OpenLineSpaced, DocLine, CloseLine>>, <<LF>>)

ParseContents == {PlainText, OneBlockText, TwoBlockText}

Path1 == <<"tmp", "example1">>
Path2 == <<"tmp", "less", "example2">>
Base1 == <<"tmp">>

StringElements == {FileOfString(c) : c \in {PlainText, OneBlockText}}

FileObject(path, base, contents) ==
    [isString |-> FALSE, path |-> path, base |-> base, contents |-> contents]

FileObjects ==
    {FileObject(Path1, <<>>, PlainText), FileObject(Path1, <<>>, OneBlockText),
     FileObject(Path2, <<>>, OneBlockText), FileObject(Path2, <<>>, TwoBlockText)}

StringInput(contents) == [isString |-> TRUE, contents |-> contents, elements |-> <<>>]

ArrayInput(elements) == [isString |-> FALSE, contents |-> <<>>, elements |-> elements]

\* A string, or an array of at most MaxFiles strings and file objects.
AggregateInputs ==
    {StringInput(c) : c \in ParseContents}
    \cup {ArrayInput(es) : es \in SeqUpTo(StringElements \cup FileObjects, MaxFiles)}

\* One file with one docblock: a string, or a file object with a base.
SectionInputs ==
    {StringInput(OneBlockText), ArrayInput(<<FileObject(Path2, Base1, OneBlockText)>>)}

\* The raws of the comment blocks of an input: what docblockParser.parse is
\* called with.
RawsOf(inp) ==
    LET fs == MassagedFiles(inp)
    IN  UNION {{findCommentBlocks(fs[k].contents)[n].raw :
                   n \in 1..Len(findCommentBlocks(fs[k].contents))} : k \in 1..Len(fs)}

RECURSIVE TagMapsOn(_, _)
\* The tag maps whose tags are the names of D, with values of vals.
TagMapsOn(vals, D) ==
    IF D = {} THEN {[k \in {} |-> <<>>]}
    ELSE LET name == CHOOSE k \in D : TRUE
         IN  {[k \in DOMAIN f \cup {name} |-> IF k = name THEN v ELSE f[k]] :
                 f \in TagMapsOn(vals, D \ {name}), v \in vals[name]}

\* The tag maps of at most n tags, with names and values of vals.
TagMaps(vals, n) ==
    UNION {TagMapsOn(vals, D) : D \in {E \in SUBSET DOMAIN vals : Cardinality(E) <= n}}

\* The tags the aggregation depends on.
AggregateTagValues ==
    [styleguide |-> {<<>>, <<"a">>},
     reference |-> {<<"r">>}]

WeightAlphabet == {"8", SP, "a", "-"}

WeightValues == SeqUpTo(WeightAlphabet, MaxWeightLen)

ModifierEntry == <<"a", SP, "-", SP, "b">>
ParameterEntry == <<"a", SP, "=", SP, "8", SP, "-", SP, "b">>

\* The tags a section is built from.
SectionTagValues ==
    [styleguide |-> {<<>>, <<"a">>},
     weight |-> WeightValues,
     deprecated |-> {<<>>, <<"d">>},
     experimental |-> {<<>>, <<"e">>},
     description |-> {<<"d">>},
     markup |-> {<<"m">>},
     modifier |-> {ModifierEntry},
     param |-> {ParameterEntry},
     custom |-> {<<"c">>}]

HeaderText == <<"h", LF, "h">>

CommentObjects(vals, n) == {[text |-> HeaderText, tags |-> t] : t \in TagMaps(vals, n)}

AggregateOptions ==
    [markdown : {FALSE}, header : {TRUE},
     custom : {<<>>, <<"custom">>, <<"reference">>}]

SectionOptions ==
    [markdown : BOOLEAN, header : {TRUE}, custom : {<<"custom">>}]

-----------------------------------------------------------------------------
(* The inputs of createModifiers and createParameters.                     *)

GrammarTokens ==
    {<<"a">>, <<SP>>, <<"-">>, <<SP, "-", SP>>, <<SP, "=", SP>>, <<LF>>, <<"|">>}

GrammarEntries == {Concat(ts) : ts \in SeqUpTo(GrammarTokens, MaxTokens)}

GrammarOptions == [markdown : BOOLEAN, header : {TRUE}, custom : {<<>>}]

-----------------------------------------------------------------------------
(* findCommentBlocks as a state machine: one step per line.                *)

ScanState ==
    [blocks |-> blocks, block |-> block, indentAmount |-> indentAmount,
     insideSingleBlock |-> insideSingleBlock,
     insideMultiBlock |-> insideMultiBlock,
     insideDocblock |-> insideDocblock]

\* findCommentBlocks called with the string text.
ScanCalled(text) ==
    /\ input = text
    /\ lines = <<>>
    /\ i = 0
    /\ blocks = ScanStart.blocks
    /\ block = ScanStart.block
    /\ indentAmount = ScanStart.indentAmount
    /\ insideSingleBlock = ScanStart.insideSingleBlock
    /\ insideMultiBlock = ScanStart.insideMultiBlock
    /\ insideDocblock = ScanStart.insideDocblock

\* Lines 191-207: the line endings are converted and the input is split.
SplitInput ==
    /\ pc = "start"
    /\ lines' = InputLines(input)
    /\ pc' = "loop"
    /\ UNCHANGED <<input, i, blocks, block, indentAmount,
                   insideSingleBlock, insideMultiBlock, insideDocblock>>
    /\ UNCHANGED <<parseVars, grammarVars, options>>

\* Lines 208-265: one iteration of the loop.
ScanNextLine ==
    /\ pc = "loop"
    /\ i < Len(lines)
    /\ LET st == ScanLine(ScanState, lines[i + 1], i)
       IN  /\ blocks' = st.blocks
           /\ block' = st.block
           /\ indentAmount' = st.indentAmount
           /\ insideSingleBlock' = st.insideSingleBlock
           /\ insideMultiBlock' = st.insideMultiBlock
           /\ insideDocblock' = st.insideDocblock
    /\ i' = i + 1
    /\ UNCHANGED <<input, lines, pc>>
    /\ UNCHANGED <<parseVars, grammarVars, options>>

\* Line 267: the loop is over and the blocks are returned.
ReturnBlocks ==
    /\ pc = "loop"
    /\ i = Len(lines)
    /\ pc' = "done"
    /\ UNCHANGED <<input, lines, i, blocks, block, indentAmount,
                   insideSingleBlock, insideMultiBlock, insideDocblock>>
    /\ UNCHANGED <<parseVars, grammarVars, options>>

NextScan == SplitInput \/ ScanNextLine \/ ReturnBlocks

-----------------------------------------------------------------------------
(* parse as a state machine: one step per file and one per comment.        *)

\* parse called with inp and opts, docblockParser.parse being the function dp.
ParseCalled(inp, opts, dp) ==
    /\ parseInput = inp
    /\ options = opts
    /\ docblock = dp
    /\ files = <<>>
    /\ styleGuide = [files |-> <<>>, sections |-> <<>>]
    /\ fileIndex = 0
    /\ comments = <<>>
    /\ commentIndex = 0

\* Lines 49-72: the input becomes the array files, and the paths of the file
\* objects are pushed to styleGuide.files.
MassageInput ==
    /\ parsePc = "start"
    /\ files' = MassagedFiles(parseInput)
    /\ styleGuide' = [styleGuide EXCEPT !.files = @ \o PushedPaths(parseInput)]
    /\ parsePc' = "loop"
    /\ UNCHANGED <<parseInput, docblock, fileIndex, comments, commentIndex>>
    /\ UNCHANGED <<scanVars, grammarVars, options>>

\* Lines 74-76: the next file, and its comment blocks.
NextFile ==
    /\ parsePc = "loop"
    /\ commentIndex = Len(comments)
    /\ fileIndex < Len(files)
    /\ fileIndex' = fileIndex + 1
    /\ comments' = findCommentBlocks(files[fileIndex + 1].contents)
    /\ commentIndex' = 0
    /\ UNCHANGED <<parseInput, docblock, files, styleGuide, parsePc>>
    /\ UNCHANGED <<scanVars, grammarVars, options>>

\* Lines 78-110: the next comment has no reference and is ignored.
IgnoreComment ==
    /\ parsePc = "loop"
    /\ commentIndex < Len(comments)
    /\ ~HasReference(docblock[comments[commentIndex + 1].raw])
    /\ commentIndex' = commentIndex + 1
    /\ UNCHANGED <<parseInput, docblock, files, styleGuide, fileIndex, comments, parsePc>>
    /\ UNCHANGED <<scanVars, grammarVars, options>>

\* Lines 78-167: the next comment has a reference; its section is pushed.
AddSection ==
    /\ parsePc = "loop"
    /\ commentIndex < Len(comments)
    /\ LET comment == comments[commentIndex + 1]
       IN  /\ HasReference(docblock[comment.raw])
           /\ styleGuide' =
                [styleGuide EXCEPT !.sections =
                    PushSection(@, SectionOf(files[fileIndex], comment,
                                             docblock[comment.raw], options))]
    /\ commentIndex' = commentIndex + 1
    /\ UNCHANGED <<parseInput, docblock, files, fileIndex, comments, parsePc>>
    /\ UNCHANGED <<scanVars, grammarVars, options>>

\* Line 171: the files are over and the style guide is returned.
ReturnStyleGuide ==
    /\ parsePc = "loop"
    /\ commentIndex = Len(comments)
    /\ fileIndex = Len(files)
    /\ parsePc' = "done"
    /\ UNCHANGED <<parseInput, docblock, files, styleGuide, fileIndex, comments,
                   commentIndex>>
    /\ UNCHANGED <<scanVars, grammarVars, options>>

NextParse == MassageInput \/ NextFile \/ IgnoreComment \/ AddSection \/ ReturnStyleGuide

-----------------------------------------------------------------------------
(* createModifiers and createParameters, each called on the entries.       *)

GrammarCalled(entries) ==
    /\ rawEntries = entries
    /\ modifiersOut = <<>>
    /\ parametersOut = <<>>

\* Lines 279-301.
CallCreateModifiers ==
    /\ grammarPc = "start"
    /\ modifiersOut' = createModifiers(rawEntries, options)
    /\ grammarPc' = "modifiers"
    /\ UNCHANGED <<rawEntries, parametersOut>>
    /\ UNCHANGED <<scanVars, parseVars, options>>

\* Lines 312-337.
CallCreateParameters ==
    /\ grammarPc = "modifiers"
    /\ parametersOut' = createParameters(rawEntries, options)
    /\ grammarPc' = "done"
    /\ UNCHANGED <<rawEntries, modifiersOut>>
    /\ UNCHANGED <<scanVars, parseVars, options>>

NextGrammar == CallCreateModifiers \/ CallCreateParameters

-----------------------------------------------------------------------------
(* The specifications.                                                     *)

NoOptions == [markdown |-> TRUE, header |-> TRUE, custom |-> <<>>]

NoInput == StringInput(<<>>)

ScanIdle == ScanCalled(<<>>) /\ pc = "idle"

ParseIdle == ParseCalled(NoInput, NoOptions, <<>>) /\ parsePc = "idle"

GrammarIdle == GrammarCalled(<<>>) /\ grammarPc = "idle"

\* findCommentBlocks on every input of ScanInputs.
Init ==
    /\ \E text \in ScanInputs : ScanCalled(text)
    /\ pc = "start"
    /\ ParseCalled(NoInput, NoOptions, <<>>) /\ parsePc = "idle"
    /\ GrammarIdle

Next == NextScan

Spec == Init /\ [][Next]_vars

\* parse on inputs of several files, with the tags the aggregation reads.
InitParse ==
    /\ \E inp \in AggregateInputs : \E opts \in AggregateOptions :
        \E dp \in [RawsOf(inp) -> CommentObjects(AggregateTagValues, MaxTags)] :
            ParseCalled(inp, opts, dp)
    /\ parsePc = "start"
    /\ ScanIdle
    /\ GrammarIdle

SpecParse == InitParse /\ [][NextParse]_vars

\* parse on one docblock, with the tags a section is built from.
InitSection ==
    /\ \E inp \in SectionInputs : \E opts \in SectionOptions :
        \E dp \in [RawsOf(inp) -> CommentObjects(SectionTagValues, MaxTags)] :
            ParseCalled(inp, opts, dp)
    /\ parsePc = "start"
    /\ ScanIdle
    /\ GrammarIdle

SpecSection == InitSection /\ [][NextParse]_vars

\* createModifiers and createParameters on one entry of GrammarEntries.
InitGrammar ==
    /\ \E e \in GrammarEntries : GrammarCalled(<<e>>)
    /\ grammarPc = "start"
    /\ \E opts \in GrammarOptions : ParseCalled(NoInput, opts, <<>>)
    /\ parsePc = "idle"
    /\ ScanIdle

SpecGrammar == InitGrammar /\ [][NextGrammar]_vars

-----------------------------------------------------------------------------
(* What the claims speak of, stated on the input's lines and independently *)
(* of the scanner's regular expressions.                                   *)

\* The line numbers of s at which the string d occurs.
OccurrencesOf(d, s) ==
    {p \in 1..Len(s) : p + Len(d) - 1 <= Len(s) /\ SubSeq(s, p, p + Len(d) - 1) = d}

\* The line holds the delimiter d and, besides it, nothing but whitespace.
DelimiterOnly(line, d) ==
    \E p \in OccurrencesOf(d, line) :
        \A k \in 1..Len(line) : (k < p \/ k >= p + Len(d)) => IsWhitespace(line[k])

OpenDelimiterOnly(line) == DelimiterOnly(line, <<"/", "*", "*">>)

CloseDelimiterOnly(line) == DelimiterOnly(line, <<"*", "/">>)

\* The line holds non-whitespace text and is no delimiter standing alone.
HasOtherText(line) ==
    /\ \E k \in 1..Len(line) : ~IsWhitespace(line[k])
    /\ \A d \in {<<"/", "*", "*">>, <<"/", "*">>, <<"*", "/">>} : ~DelimiterOnly(line, d)

\* The line holds a delimiter somewhere.
HoldsDelimiter(line) ==
    \E d \in {<<"/", "*">>, <<"*", "/">>} : OccurrencesOf(d, line) # {}

\* The line without its trailing whitespace.
WithoutTrailingSpace(line) ==
    LET keep == {k \in 1..Len(line) : ~IsWhitespace(line[k])}
    IN  IF keep = {} THEN <<>>
        ELSE SubSeq(line, 1, CHOOSE k \in keep : \A m \in keep : m <= k)

\* The input's lines a..b, trailing whitespace stripped, each ended by \n.
RawOfLines(a, b) ==
    Concat([k \in 1..(b - a + 1) |-> WithoutTrailingSpace(lines[a + k - 1]) \o <<LF>>])

\* The number of lines of a raw or a text: each is ended by \n.
NumLines(s) == Cardinality({k \in 1..Len(s) : s[k] = LF})

EndsWith(s, t) == Len(s) >= Len(t) /\ SubSeq(s, Len(s) - Len(t) + 1, Len(s)) = t

IsSubstring(t, s) == t = <<>> \/ OccurrencesOf(t, s) # {}

\* s without its whitespace.
WithoutWhitespace(s) == SelectSeq(s, LAMBDA c : ~IsWhitespace(c))

Last(s) == s[Len(s)]

-----------------------------------------------------------------------------
(* Claims on findCommentBlocks.                                            *)

\* C1: when the scan is over, a block opened by an open-delimiter-only line
\* that no close-delimiter-only line follows has been emitted: the last block
\* emitted holds the lines from that open delimiter to the end of the input.
C1_UnterminatedBlockCaptured ==
    pc = "done" =>
        \A j \in 1..(Len(lines) - 1) :
            (/\ OpenDelimiterOnly(lines[j])
             /\ \A k \in (j + 1)..Len(lines) : ~CloseDelimiterOnly(lines[k]))
            => /\ blocks # <<>>
               /\ \/ EndsWith(Last(blocks).raw, RawOfLines(j, Len(lines) - 1))
                  \/ EndsWith(Last(blocks).raw, RawOfLines(j, Len(lines)))

\* C5: the line of a block, at the step that emits it, is the number of the
\* first line of its raw, also when open-delimiter-only lines occur inside
\* the block. The step reads line number i + 1, and the block's raw holds the
\* lines before it.
C5_LineIsFirstLineOfRaw ==
    [][Len(blocks') = Len(blocks) + 1 =>
          Last(blocks').line = i + 1 - NumLines(Last(blocks').raw)]_vars

\* C6 as stated: when the scan is over, the raw of every block is the run of
\* the input's lines from an open-delimiter-only line through a
\* close-delimiter-only line inclusive.
C6_RawThroughCloseDelimiter ==
    pc = "done" =>
        \A n \in 1..Len(blocks) :
            \E j \in 1..Len(lines) : \E c \in j..Len(lines) :
                /\ OpenDelimiterOnly(lines[j])
                /\ CloseDelimiterOnly(lines[c])
                /\ blocks[n].raw = RawOfLines(j, c)

\* C6 as amended: when the scan is over, the raw of every block is the run of
\* the input's lines (trailing whitespace stripped) from an
\* open-delimiter-only line through the line before the first
\* close-delimiter-only line after it: raw holds the open delimiter and not
\* the close delimiter, and is a substring of the input when whitespace is
\* ignored.
C6_RawUpToCloseDelimiter ==
    pc = "done" =>
        \A n \in 1..Len(blocks) :
            /\ \E j \in 1..Len(lines) : \E c \in (j + 1)..Len(lines) :
                /\ OpenDelimiterOnly(lines[j])
                /\ CloseDelimiterOnly(lines[c])
                /\ \A k \in j..(c - 1) : ~CloseDelimiterOnly(lines[k])
                /\ blocks[n].raw = RawOfLines(j, c - 1)
            /\ IsSubstring(WithoutWhitespace(blocks[n].raw), WithoutWhitespace(input))

\* C6, witness: a scan is over that emitted a block of three lines or more.
C6_Witness ==
    /\ pc = "done"
    /\ \E n \in 1..Len(blocks) : NumLines(blocks[n].raw) >= 3

\* C7: a step on a line holding non-whitespace text besides a delimiter
\* neither opens nor closes a block: with no block open it changes nothing of
\* the scanner but the line index, and inside an open block it appends the
\* line to the block's raw and to nothing else but its text.
C7_TextLineNeitherOpensNorCloses ==
    [][(pc = "loop" /\ i' = i + 1 /\ HasOtherText(lines[i + 1])) =>
          /\ blocks' = blocks
          /\ insideSingleBlock' = insideSingleBlock
          /\ insideMultiBlock' = insideMultiBlock
          /\ insideDocblock' = insideDocblock
          /\ block'.line = block.line
          /\ IF insideSingleBlock \/ insideMultiBlock \/ insideDocblock
             THEN /\ block'.raw = block.raw \o WithoutTrailingSpace(lines[i + 1]) \o <<LF>>
                  /\ NumLines(block'.text) = NumLines(block.text) + 1
             ELSE block' = block /\ indentAmount' = indentAmount]_vars

\* C7, witness: inside an open block, the line just read holds a delimiter and
\* other text and is the last line of the block's raw.
C7_Witness ==
    /\ pc = "loop"
    /\ i >= 2
    /\ insideDocblock
    /\ HasOtherText(lines[i])
    /\ HoldsDelimiter(lines[i])
    /\ EndsWith(block.raw, WithoutTrailingSpace(lines[i]) \o <<LF>>)

-----------------------------------------------------------------------------
(* Claims on parse.                                                        *)

\* The files of the input, in the order the input gives them.
InputFiles ==
    IF parseInput.isString THEN <<[path |-> <<>>, contents |-> parseInput.contents]>>
    ELSE [k \in 1..Len(parseInput.elements) |->
            [path |-> parseInput.elements[k].path,
             contents |-> parseInput.elements[k].contents]]

\* The tag map of a comment block, as docblockParser.parse gave it.
TagsOf(raw) == docblock[raw].tags

\* The tag map carries a reference: a styleguide tag that is not empty.
CarriesReference(tags) == "styleguide" \in DOMAIN tags /\ tags["styleguide"] # <<>>

\* The comment blocks of the k-th file that carry a reference, in the order
\* they occur, each with its file.
ReferencedBlocks(k) ==
    LET found == findCommentBlocks(InputFiles[k].contents)
    IN  SelectSeq([n \in 1..Len(found) |-> [path |-> InputFiles[k].path, comment |-> found[n]]],
                  LAMBDA x : CarriesReference(TagsOf(x.comment.raw)))

\* The blocks that carry a reference, file after file.
AllReferencedBlocks == Concat([k \in 1..Len(InputFiles) |-> ReferencedBlocks(k)])

\* C2: when parse is over, the sections are, one for one and in the same
\* order, the comment blocks that carry a reference (a styleguide tag that is
\* not empty), taken file after file in the order of the input and within a
\* file in the order they occur; a block without a reference gives no section.
C2_SectionsInInputOrder ==
    parsePc = "done" =>
        LET expected == AllReferencedBlocks
        IN  /\ Len(styleGuide.sections) = Len(expected)
            /\ \A n \in 1..Len(styleGuide.sections) :
                /\ styleGuide.sections[n].raw = expected[n].comment.raw
                /\ styleGuide.sections[n].sourceFile.line = expected[n].comment.line
                /\ styleGuide.sections[n].sourceFile.path = expected[n].path

\* C2, witness: parse is over on two files, with sections of both, and with a
\* block that gave no section.
C2_Witness ==
    /\ parsePc = "done"
    /\ Len(files) = 2
    /\ Len(styleGuide.sections) = 2
    /\ styleGuide.sections[1].sourceFile.path # styleGuide.sections[2].sourceFile.path
    /\ styleGuide.sections[1].raw # styleGuide.sections[2].raw
    /\ \E k \in 1..2 : Len(findCommentBlocks(files[k].contents)) > Len(ReferencedBlocks(k))

\* C3: every section of the style guide has a reference that is not empty,
\* whatever the custom property names are.
C3_ReferenceNeverEmpty ==
    \A n \in 1..Len(styleGuide.sections) : styleGuide.sections[n].reference # <<>>

\* The string is numeric: whitespace aside, an optional minus sign and digits.
IsNumeric(str) ==
    LET t == SelectSeq(str, LAMBDA c : ~IsWhitespace(c))
        d == IF t # <<>> /\ t[1] = "-" THEN SubSeq(t, 2, Len(t)) ELSE t
        body == WithoutTrailingSpace(SkipWhitespace(str))
    IN  /\ d # <<>>
        /\ \A k \in 1..Len(d) : d[k] \in Digits
        /\ \A k \in 1..Len(body) : ~IsWhitespace(body[k])

\* The integer a numeric string writes.
IntegerOf(str) ==
    LET t == SelectSeq(str, LAMBDA c : ~IsWhitespace(c))
    IN  IF t[1] = "-" THEN 0 - DecimalValue(SubSeq(t, 2, Len(t))) ELSE DecimalValue(t)

\* C4: the weight of every section is an integer and never NaN: it is 0 when
\* the weight tag is absent or its value is not numeric (empty, blank or
\* text), and the integer the value writes otherwise.
C4_WeightIsInteger ==
    \A n \in 1..Len(styleGuide.sections) :
        LET tags == TagsOf(styleGuide.sections[n].raw)
            weight == styleGuide.sections[n].weight
        IN  /\ ~weight.isNaN
            /\ IF "weight" \in DOMAIN tags /\ IsNumeric(tags["weight"])
               THEN weight.value = IntegerOf(tags["weight"])
               ELSE weight.value = 0

\* C10: a section is deprecated exactly when its block's tag map has a
\* deprecated key, and experimental exactly when it has an experimental key,
\* whatever the values and the other tags are.
C10_FlagsFollowKeys ==
    \A n \in 1..Len(styleGuide.sections) :
        LET tags == TagsOf(styleGuide.sections[n].raw)
        IN  /\ styleGuide.sections[n].deprecated = ("deprecated" \in DOMAIN tags)
            /\ styleGuide.sections[n].experimental = ("experimental" \in DOMAIN tags)

\* C10, witness: a section whose deprecated tag is present and empty and whose
\* experimental tag is absent.
C10_Witness ==
    /\ parsePc = "done"
    /\ \E n \in 1..Len(styleGuide.sections) :
        LET tags == TagsOf(styleGuide.sections[n].raw)
        IN  /\ "deprecated" \in DOMAIN tags
            /\ tags["deprecated"] = <<>>
            /\ "experimental" \notin DOMAIN tags
            /\ styleGuide.sections[n].deprecated
            /\ ~styleGuide.sections[n].experimental

-----------------------------------------------------------------------------
(* Claims on createModifiers and createParameters.                         *)

\* A separator of s around the character c starts at p: whitespace from p
\* on, then c, then whitespace.
SeparatorStartsAt(s, p, c) ==
    \E h \in (p + 1)..(Len(s) - 1) :
        /\ s[h] = c
        /\ IsWhitespace(s[h + 1])
        /\ \A k \in p..(h - 1) : IsWhitespace(s[k])

HasSeparator(s, c) == \E p \in 1..Len(s) : SeparatorStartsAt(s, p, c)

\* The first separator of s around c, <<p, q>>: it starts at the leftmost p
\* where one starts, and ends at q, where the whitespace after c ends.
FirstSeparator(s, c) ==
    LET p == CHOOSE x \in 1..Len(s) :
                /\ SeparatorStartsAt(s, x, c)
                /\ \A y \in 1..(x - 1) : ~SeparatorStartsAt(s, y, c)
        h == CHOOSE x \in (p + 1)..Len(s) : \A k \in p..(x - 1) : IsWhitespace(s[k]) /\ s[x] = c
        q == CHOOSE x \in (h + 1)..Len(s) :
                /\ \A k \in (h + 1)..x : IsWhitespace(s[k])
                /\ x = Len(s) \/ ~IsWhitespace(s[x + 1])
    IN  <<p, q>>

BeforeFirstSeparator(s, c) == SubSeq(s, 1, FirstSeparator(s, c)[1] - 1)

AfterFirstSeparator(s, c) == SubSeq(s, FirstSeparator(s, c)[2] + 1, Len(s))

HasLineBreak(s) == \E k \in 1..Len(s) : s[k] = LF

\* C8: with markdown disabled, for an entry that has a ' - ' separator: the
\* prefix is the text before the first one and the description everything
\* after it; if the prefix has a ' = ' separator, name is the text before the
\* first one and defaultValue everything in the prefix after it; otherwise
\* name is the prefix and defaultValue is empty.
C8_ParameterGrammar ==
    (grammarPc = "done" /\ ~options.markdown) =>
        \A n \in 1..Len(rawEntries) :
            LET entry == rawEntries[n]
                out == parametersOut[n]
                prefix == BeforeFirstSeparator(entry, "-")
            IN  HasSeparator(entry, "-") =>
                    /\ out.description = AfterFirstSeparator(entry, "-")
                    /\ IF HasSeparator(prefix, "=")
                       THEN /\ out.name = BeforeFirstSeparator(prefix, "=")
                            /\ out.defaultValue = AfterFirstSeparator(prefix, "=")
                       ELSE /\ out.name = prefix
                            /\ out.defaultValue = <<>>

\* C9 as stated: with markdown disabled, the name of a modifier is the text
\* before the first ' - ' separator and its description the entire text after
\* it; an entry with no separator gives its whole text as name and an empty
\* description.
C9_DescriptionIsTextAfterSeparator ==
    (grammarPc \in {"modifiers", "done"} /\ ~options.markdown) =>
        \A n \in 1..Len(rawEntries) :
            LET entry == rawEntries[n]
                out == modifiersOut[n]
            IN  IF HasSeparator(entry, "-")
                THEN /\ out.name = BeforeFirstSeparator(entry, "-")
                     /\ out.description = AfterFirstSeparator(entry, "-")
                ELSE /\ out.name = entry
                     /\ out.description = <<>>

\* C9 as amended: with markdown disabled, the name of a modifier is the text
\* before the first ' - ' separator, and its description is the entire text
\* after it when that text has no line break, later separators and their
\* spacing kept; a hyphen without whitespace on both sides does not split the
\* name; an entry with no separator gives its whole text as name and an empty
\* description.
C9_SingleLineDescriptionIsTextAfterSeparator ==
    (grammarPc \in {"modifiers", "done"} /\ ~options.markdown) =>
        \A n \in 1..Len(rawEntries) :
            LET entry == rawEntries[n]
                out == modifiersOut[n]
            IN  IF HasSeparator(entry, "-")
                THEN /\ out.name = BeforeFirstSeparator(entry, "-")
                     /\ ~HasLineBreak(AfterFirstSeparator(entry, "-"))
                            => out.description = AfterFirstSeparator(entry, "-")
                ELSE /\ out.name = entry
                     /\ out.description = <<>>

\* C9, witness: a modifier with a name, whose single-line description holds
\* a second separator, kept as it is.
C9_Witness ==
    /\ grammarPc = "modifiers"
    /\ ~options.markdown
    /\ HasSeparator(rawEntries[1], "-")
    /\ modifiersOut[1].name = <<"a">>
    /\ HasSeparator(modifiersOut[1].description, "-")
    /\ ~HasLineBreak(modifiersOut[1].description)

-----------------------------------------------------------------------------
(* Claims on the files of the style guide.                                 *)

RECURSIVE PathsOfFileRecords(_)
\* The paths of the elements of an array that are file records and not
\* strings, in the order of the array.
PathsOfFileRecords(elements) ==
    IF elements = <<>> THEN <<>>
    ELSE IF Head(elements).isString THEN PathsOfFileRecords(Tail(elements))
    ELSE <<Head(elements).path>> \o PathsOfFileRecords(Tail(elements))

\* C11: once the input is massaged, and until parse is over, the files of the
\* style guide are the paths of the file records of an array input, in the
\* order of the input, whether or not a file holds a comment block or gives a
\* section; a string input, and the strings of an array, give no entry.
C11_FilesArePathsOfFileRecords ==
    parsePc \in {"loop", "done"} =>
        styleGuide.files = IF parseInput.isString THEN <<>>
                           ELSE PathsOfFileRecords(parseInput.elements)

\* C11, witness: parse is over on an array of a string that holds a comment
\* block and of a file record that holds none: the files are the path of the
\* record alone.
C11_Witness ==
    /\ parsePc = "done"
    /\ ~parseInput.isString
    /\ Len(parseInput.elements) = 2
    /\ parseInput.elements[1].isString
    /\ findCommentBlocks(parseInput.elements[1].contents) # <<>>
    /\ ~parseInput.elements[2].isString
    /\ findCommentBlocks(parseInput.elements[2].contents) = <<>>
    /\ styleGuide.files = <<parseInput.elements[2].path>>

-----------------------------------------------------------------------------
(* Claims on the text of a comment block.                                  *)

\* The lines of a raw after its first, the open delimiter: each is ended by \n.
InteriorLines(raw) ==
    LET ls == SplitLines(raw, <<>>)
    IN  SubSeq(ls, 2, Len(ls) - 1)

\* The length of the run of whitespace s starts with.
IndentLength(s) ==
    CHOOSE n \in 0..Len(s) :
        /\ \A k \in 1..n : IsWhitespace(s[k])
        /\ n = Len(s) \/ ~IsWhitespace(s[n + 1])

\* The line without the prefix, when it starts with it.
WithoutPrefix(line, prefix) ==
    IF Len(line) >= Len(prefix) /\ \A k \in 1..Len(prefix) : line[k] = prefix[k]
    THEN SubSeq(line, Len(prefix) + 1, Len(line))
    ELSE line

\* The lines from the first that is not blank on, each without the
\* indentation of that first line.
Deindented(ls) ==
    LET filled == {k \in 1..Len(ls) : ls[k] # <<>>}
    IN  IF filled = {} THEN <<>>
        ELSE LET f == CHOOSE k \in filled : \A m \in filled : k <= m
                 indent == SubSeq(ls[f], 1, IndentLength(ls[f]))
             IN  [k \in 1..(Len(ls) - f + 1) |-> WithoutPrefix(ls[f + k - 1], indent)]

\* The line without its comment marker: the leading whitespace, an asterisk,
\* and one whitespace character after it when there is one.
WithoutMarker(line) ==
    LET n == IndentLength(line)
    IN  IF n < Len(line) /\ line[n + 1] = "*"
        THEN IF n + 2 <= Len(line) /\ IsWhitespace(line[n + 2])
             THEN SubSeq(line, n + 3, Len(line))
             ELSE SubSeq(line, n + 2, Len(line))
        ELSE line

\* The lines that are no open delimiter, each without its comment marker.
Unmarked(ls) ==
    LET kept == SelectSeq(ls, LAMBDA l : ~OpenDelimiterOnly(l))
    IN  [k \in 1..Len(kept) |-> WithoutMarker(kept[k])]

\* The lines without the blank ones they start and end with, joined by \n.
TextOfLines(ls) ==
    LET filled == {k \in 1..Len(ls) : ls[k] # <<>>}
    IN  IF filled = {} THEN <<>>
        ELSE JoinWith(SubSeq(ls, CHOOSE k \in filled : \A m \in filled : k <= m,
                                 CHOOSE k \in filled : \A m \in filled : m <= k), <<LF>>)

-----------------------------------------------------------------------------
(* Claims on the folding of a description of several lines.                *)

\* The raw description of an entry: the text after its first ' - ' separator,
\* and nothing when it has none.
RawDescription(entry) ==
    IF HasSeparator(entry, "-") THEN AfterFirstSeparator(entry, "-") ELSE <<>>

\* s with each newline replaced by one space.
LineBreaksAsSpaces(s) == [k \in 1..Len(s) |-> IF s[k] = LF THEN SP ELSE s[k]]

RECURSIVE RunsAsOneSpace(_)
\* s with each run of two or more whitespace characters replaced by one
\* space, and every other character kept.
RunsAsOneSpace(s) ==
    IF s = <<>> THEN <<>>
    ELSE LET n == IndentLength(s)
         IN  IF n >= 2 THEN <<SP>> \o RunsAsOneSpace(SubSeq(s, n + 1, Len(s)))
             ELSE <<Head(s)>> \o RunsAsOneSpace(Tail(s))

\* C13: with markdown disabled, the description of a modifier whose raw
\* description has a line break is the raw description with each newline
\* replaced by one space and then each run of two or more whitespace
\* characters replaced by one space, every character that is not whitespace
\* kept; a raw description without a line break is returned unchanged.
C13_FoldingKeepsNonWhitespace ==
    (grammarPc \in {"modifiers", "done"} /\ ~options.markdown) =>
        \A n \in 1..Len(rawEntries) :
            LET raw == RawDescription(rawEntries[n])
                out == modifiersOut[n].description
            IN  IF HasLineBreak(raw)
                THEN /\ out = RunsAsOneSpace(LineBreaksAsSpaces(raw))
                     /\ WithoutWhitespace(out) = WithoutWhitespace(raw)
                ELSE out = raw

-----------------------------------------------------------------------------
(* Claims on createParameters against createModifiers.                     *)

\* The prefix of an entry: the text before its first ' - ' separator, and the
\* whole entry when it has none.
PrefixOf(entry) ==
    IF HasSeparator(entry, "-") THEN BeforeFirstSeparator(entry, "-") ELSE entry

\* C14: when both have been called on the same entries under the same
\* options, for every entry whose prefix has no ' = ' separator the parameter
\* has the name and the description of the modifier and an empty
\* defaultValue, descriptions of several lines included.
C14_ParametersAsModifiers ==
    grammarPc = "done" =>
        \A n \in 1..Len(rawEntries) :
            ~HasSeparator(PrefixOf(rawEntries[n]), "=") =>
                /\ parametersOut[n].name = modifiersOut[n].name
                /\ parametersOut[n].description = modifiersOut[n].description
                /\ parametersOut[n].defaultValue = <<>>

-----------------------------------------------------------------------------
(* Claims on the state of the scanner between two lines.                   *)

\* How many of the three flags are set.
FlagsSet ==
    Cardinality({f \in {"single", "multi", "doc"} :
                    \/ f = "single" /\ insideSingleBlock
                    \/ f = "multi" /\ insideMultiBlock
                    \/ f = "doc" /\ insideDocblock})

\* The first line of a raw.
FirstLineOf(raw) ==
    LET ends == {k \in 1..Len(raw) : raw[k] = LF}
    IN  SubSeq(raw, 1, (CHOOSE k \in ends : \A m \in ends : k <= m) - 1)

\* C15: between two lines of every input, at most one of the three flags is
\* set; with none set the working block is empty (line 0, raw and text empty)
\* and indentAmount is false; with one set the working block has a line of 1
\* or more and its raw starts with an open-delimiter-only line; and the step
\* that pushes a block leaves no flag set, indentAmount false and an empty
\* working block.
C15_ScannerStateConsistent ==
    /\ [](/\ FlagsSet <= 1
          /\ FlagsSet = 0 =>
                /\ block.line = 0 /\ block.raw = <<>> /\ block.text = <<>>
                /\ indentAmount.isFalse
          /\ FlagsSet = 1 =>
                /\ block.line >= 1
                /\ \E k \in 1..Len(block.raw) : block.raw[k] = LF
                /\ OpenDelimiterOnly(FirstLineOf(block.raw)))
    /\ [][Len(blocks') = Len(blocks) + 1 =>
            /\ ~insideSingleBlock' /\ ~insideMultiBlock' /\ ~insideDocblock'
            /\ indentAmount'.isFalse
            /\ block'.line = 0 /\ block'.raw = <<>> /\ block'.text = <<>>]_vars

\* C15, witness: a block has been pushed, and a second block is open that
\* has taken an interior line.
C15_Witness ==
    /\ pc = "loop"
    /\ Len(blocks) = 1
    /\ insideDocblock
    /\ block.line >= 3
    /\ block.text # <<>>

====
